---------------------------- MODULE Spec2Model ----------------------------
(***************************************************************************)
(* Model of the user service of node_assignment: the process-wide cache    *)
(* (setCache / getCache / invalidateCacheByPrefix), the cache keys of the  *)
(* two read endpoints, and the five handlers of userRouter, each cut into  *)
(* one step per await point.                                                *)
(*                                                                         *)
(* Strings whose characters matter (urls, cache keys, query values, user   *)
(* fields) are sequences of one-character strings.                         *)
(***************************************************************************)
EXTENDS Integers, Sequences, FiniteSets, TLC

VARIABLES
    store,      \* db.collection("users"): the documents, in insertion order
    cache,      \* the cache object: key -> [data, timestamp]
    now,        \* Date.now(), in ms
    pc,         \* per connection: where its handler stands
    req,        \* per connection: the request being (or last) handled
    loc,        \* per connection: the handler's local variables
    resp,       \* per connection: the response written for req (or NoResp)
    ops,        \* per connection: the cache and store operations req's handler has made
    pre,        \* store and cache as they were when the latest request arrived
    issued,     \* number of requests received (or direct cache calls made) so far
    gone,       \* ids whose DELETE was answered 200, with no insert of that id since
    fresh,      \* id -> what the first GET /users/{id} after a PUT 201 put in the cache
    lastPut,    \* key -> [data, timestamp] of the latest setCache not invalidated since
    ret,        \* the last direct cache call and what it returned
    kreq        \* the last collection read whose parameters were normalised

vars == <<store, cache, now, pc, req, loc, resp, ops, pre, issued, gone, fresh,
          lastPut, ret, kreq>>

-----------------------------------------------------------------------------
(* Bounds of the model *)

MaxRequests == 3      \* requests received in one behaviour
MaxTicks == 2         \* clock advances in one behaviour
MaxParams == 2        \* query parameters of a collection read (key derivation)
MaxCalls == 4         \* direct calls of the cache functions in one behaviour
MaxUserId == 12       \* user ids whose single-entity key is compared

-----------------------------------------------------------------------------
(* Characters and strings *)

Digit == <<"0", "1", "2", "3", "4", "5", "6", "7", "8", "9">>

RECURSIVE Digits(_)
\* Number.prototype.toString for a non-negative integer
Digits(n) ==
    IF n < 10 THEN <<Digit[n + 1]>> ELSE Digits(n \div 10) \o <<Digit[(n % 10) + 1]>>

\* String(n), as a template literal or JSON.stringify writes an integer
NumStr(n) == IF n < 0 THEN <<"-">> \o Digits(0 - n) ELSE Digits(n)

IsDigit(ch) == \E i \in 1..10 : Digit[i] = ch

DigitVal(ch) == (CHOOSE i \in 1..10 : Digit[i] = ch) - 1

IsSpace(ch) == ch = " "

\* String.prototype.toLowerCase, one character
LowerChar(ch) ==
    CASE ch = "A" -> "a"
      [] ch = "B" -> "b"
      [] ch = "L" -> "l"
      [] ch = "O" -> "o"
      [] OTHER -> ch

ToLowerCase(s) == [i \in 1..Len(s) |-> LowerChar(s[i])]

\* String.prototype.startsWith
StartsWith(s, prefix) ==
    /\ Len(prefix) <= Len(s)
    /\ SubSeq(s, 1, Len(prefix)) = prefix

\* the UTF-16 code unit order of the characters used
CharCode(ch) ==
    CASE ch = " " -> 32
      [] ch = "\"" -> 34
      [] ch = "-" -> 45
      [] ch = "/" -> 47
      [] IsDigit(ch) -> 48 + DigitVal(ch)
      [] ch = "@" -> 64
      [] ch = "A" -> 65
      [] ch = "B" -> 66
      [] ch = "L" -> 76
      [] ch = "O" -> 79
      [] ch = "\\" -> 92
      [] ch = "a" -> 97
      [] ch = "b" -> 98
      [] ch = "l" -> 108
      [] ch = "o" -> 111
      [] ch = "x" -> 120
      [] OTHER -> 127

RECURSIVE StrLess(_, _)
\* s < t for two strings (code unit order)
StrLess(s, t) ==
    IF t = <<>> THEN FALSE
    ELSE IF s = <<>> THEN TRUE
    ELSE IF s[1] # t[1] THEN CharCode(s[1]) < CharCode(t[1])
    ELSE StrLess(Tail(s), Tail(t))

\* whether sub occurs in s
Contains(s, sub) ==
    \E i \in 0..(Len(s) - Len(sub)) : SubSeq(s, i + 1, i + Len(sub)) = sub

RECURSIVE SkipSpace(_)
SkipSpace(s) == IF s # <<>> /\ IsSpace(s[1]) THEN SkipSpace(Tail(s)) ELSE s

RECURSIVE DigitPrefix(_, _)
\* the value of the longest run of digits s starts with, continuing acc
DigitPrefix(s, acc) ==
    IF s # <<>> /\ IsDigit(s[1])
    THEN DigitPrefix(Tail(s), 10 * acc + DigitVal(s[1]))
    ELSE acc

NaN == [nan |-> TRUE, val |-> 0]

Num(n) == [nan |-> FALSE, val |-> n]

\* parseInt(s, 10): leading white space, an optional sign, then the longest run
\* of digits; NaN when there is no digit there
ParseInt(s) ==
    LET t == SkipSpace(s)
        neg == t # <<>> /\ t[1] = "-"
        u == IF t # <<>> /\ t[1] \in {"-", "+"} THEN Tail(t) ELSE t
    IN IF u = <<>> \/ ~IsDigit(u[1]) THEN NaN
       ELSE Num(IF neg THEN 0 - DigitPrefix(u, 0) ELSE DigitPrefix(u, 0))

-----------------------------------------------------------------------------
(* The cache *)

CACHE_TTL == 5 * 60 * 1000

\* what getCache returns for a missing or expired entry
Null == [null |-> TRUE]

\* cache[key] = { data, timestamp: Date.now() }
SetCache(c, key, data, t) ==
    [k \in DOMAIN c \cup {key} |->
        IF k = key THEN [data |-> data, timestamp |-> t] ELSE c[k]]

\* getCache with the TTL test written >= : an entry dies at the TTL, not after it
GetCacheEarly(c, key, t) ==
    IF key \notin DOMAIN c \/ t - c[key].timestamp >= CACHE_TTL
    THEN Null
    ELSE c[key].data

GetCache(c, key, t) ==
    IF key \notin DOMAIN c \/ t - c[key].timestamp > CACHE_TTL
    THEN Null
    ELSE c[key].data

\* invalidateCacheByPrefix with key === prefix in place of key.startsWith(prefix)
InvalidateCacheExact(c, prefix) ==
    [k \in {x \in DOMAIN c : x # prefix} |-> c[k]]

\* invalidateCacheByPrefix with prefix.startsWith(key): receiver and argument
\* the wrong way round
InvalidateCacheSwapped(c, prefix) ==
    [k \in {x \in DOMAIN c : ~StartsWith(prefix, x)} |-> c[k]]

InvalidateCacheByPrefix(c, prefix) ==
    [k \in {x \in DOMAIN c : ~StartsWith(x, prefix)} |-> c[k]]


-----------------------------------------------------------------------------
(* Cache keys *)

USERS == <<"/", "u", "s", "e", "r", "s">>

\* `/users/${userId}`
UserCacheKey(userId) == USERS \o <<"/">> \o NumStr(userId)

\* JSON.stringify of a string: quotes around it, " and \ escaped
RECURSIVE JsonEscape(_)
JsonEscape(s) ==
    IF s = <<>> THEN <<>>
    ELSE (IF s[1] \in {"\"", "\\"} THEN <<"\\", s[1]>> ELSE <<s[1]>>)
         \o JsonEscape(Tail(s))

JsonString(s) == <<"\"">> \o JsonEscape(s) \o <<"\"">>

\* "name":
JsonName(s) == JsonString(s) \o <<":">>

\* the key without the order: JSON.stringify({ page, limit, search, sortBy })
ListCacheKeyNoOrder(page, limit, search, sortBy, order) ==
    <<"{">> \o JsonName(<<"p", "a", "g", "e">>) \o NumStr(page)
    \o <<",">> \o JsonName(<<"l", "i", "m", "i", "t">>) \o NumStr(limit)
    \o <<",">> \o JsonName(<<"s", "e", "a", "r", "c", "h">>) \o JsonString(search)
    \o <<",">> \o JsonName(<<"s", "o", "r", "t", "B", "y">>) \o JsonString(sortBy)
    \o <<"}">>

\* JSON.stringify({ page, limit, search, sortBy, order })
ListCacheKey(page, limit, search, sortBy, order) ==
    <<"{">> \o JsonName(<<"p", "a", "g", "e">>) \o NumStr(page)
    \o <<",">> \o JsonName(<<"l", "i", "m", "i", "t">>) \o NumStr(limit)
    \o <<",">> \o JsonName(<<"s", "e", "a", "r", "c", "h">>) \o JsonString(search)
    \o <<",">> \o JsonName(<<"s", "o", "r", "t", "B", "y">>) \o JsonString(sortBy)
    \o <<",">> \o JsonName(<<"o", "r", "d", "e", "r">>) \o NumStr(order)
    \o <<"}">>

-----------------------------------------------------------------------------
(* Query parameters of GET /users *)

\* URLSearchParams.get: the value of the first parameter of that name, or Null
RECURSIVE SearchParamsGet(_, _)
SearchParamsGet(query, name) ==
    IF query = <<>> THEN Null
    ELSE IF query[1].name = name THEN [null |-> FALSE, value |-> query[1].value]
    ELSE SearchParamsGet(Tail(query), name)

\* get(name) || dflt: Null and the empty string are falsy
GetOr(query, name, dflt) ==
    LET v == SearchParamsGet(query, name)
    IN IF v.null \/ v.value = <<>> THEN dflt ELSE v.value

ParsePage(query) == ParseInt(GetOr(query, "page", <<"1">>))

ParseLimit(query) == ParseInt(GetOr(query, "limit", <<"5">>))

\* get("search")?.toLowerCase() || ""
ParseSearch(query) ==
    LET v == SearchParamsGet(query, "search")
    IN IF v.null THEN <<>> ELSE ToLowerCase(v.value)

ParseSortBy(query) == GetOr(query, "sortBy", <<"i", "d">>)

\* get("order") === "desc" ? -1 : 1
ParseOrder(query) ==
    LET v == SearchParamsGet(query, "order")
    IN IF ~v.null /\ v.value = <<"d", "e", "s", "c">> THEN 0 - 1 ELSE 1

validSortFields ==
    << <<"i", "d">>, <<"n", "a", "m", "e">>,
       <<"u", "s", "e", "r", "n", "a", "m", "e">>, <<"e", "m", "a", "i", "l">> >>

\* isNaN(page) || isNaN(limit) || page < 1 || limit < 1
BadPageOrLimit(query) ==
    LET page == ParsePage(query)
        limit == ParseLimit(query)
    IN page.nan \/ limit.nan \/ page.val < 1 \/ limit.val < 1

\* !validSortFields.includes(sortBy)
BadSortBy(query) ==
    ~\E i \in 1..Len(validSortFields) : validSortFields[i] = ParseSortBy(query)

\* the cacheKey of a collection read that passed both validations
ListKeyOf(query) ==
    ListCacheKey(ParsePage(query).val, ParseLimit(query).val, ParseSearch(query),
                 ParseSortBy(query), ParseOrder(query))

-----------------------------------------------------------------------------
(* The users collection *)

\* findOne on a field no document has, as findOne({ userId: id }) would be
FindOneWrongField(s, id) == Null

\* findOne({ id })
FindOne(s, id) ==
    IF \E i \in 1..Len(s) : s[i].id = id
    THEN s[CHOOSE i \in 1..Len(s) :
               s[i].id = id /\ \A j \in 1..(i - 1) : s[j].id # id]
    ELSE Null

\* deleteOne({ id }).deletedCount
DeletedCount(s, id) == IF \E i \in 1..Len(s) : s[i].id = id THEN 1 ELSE 0

\* the collection after deleteOne({ id }): the first match is removed
DeleteOne(s, id) ==
    IF DeletedCount(s, id) = 0 THEN s
    ELSE LET i == CHOOSE k \in 1..Len(s) :
                      s[k].id = id /\ \A j \in 1..(k - 1) : s[j].id # id
         IN SubSeq(s, 1, i - 1) \o SubSeq(s, i + 1, Len(s))

\* insertOne whose document never reaches the collection
InsertOneDropped(s, doc) == s

\* insertOne(doc): the collection has no unique index on id
InsertOne(s, doc) == Append(s, doc)

\* { $regex: search, $options: "i" } on one field
RegexI(field, search) == Contains(ToLowerCase(field), ToLowerCase(search))

\* the query of GET /users: {} for an empty search, else $or over three fields
Matches(doc, search) ==
    \/ search = <<>>
    \/ RegexI(doc.name, search)
    \/ RegexI(doc.username, search)
    \/ RegexI(doc.email, search)

RECURSIVE Filter(_, _)
Filter(s, search) ==
    IF s = <<>> THEN <<>>
    ELSE (IF Matches(s[1], search) THEN <<s[1]>> ELSE <<>>) \o Filter(Tail(s), search)

\* whether a sorts before b under sort({ [sortBy]: order })
Before(a, b, sortBy, order) ==
    LET lt(x, y) ==
            CASE sortBy = <<"i", "d">> -> x.id < y.id
              [] sortBy = <<"n", "a", "m", "e">> -> StrLess(x.name, y.name)
              [] sortBy = <<"e", "m", "a", "i", "l">> -> StrLess(x.email, y.email)
              [] OTHER -> StrLess(x.username, y.username)
    IN IF order = 1 THEN lt(a, b) ELSE lt(b, a)

RECURSIVE InsertSorted(_, _, _, _)
\* d placed in the sorted s, after the documents it ties with
InsertSorted(s, d, sortBy, order) ==
    IF s = <<>> THEN <<d>>
    ELSE IF Before(d, s[1], sortBy, order) THEN <<d>> \o s
    ELSE <<s[1]>> \o InsertSorted(Tail(s), d, sortBy, order)

RECURSIVE SortDocs(_, _, _)
SortDocs(s, sortBy, order) ==
    IF s = <<>> THEN <<>>
    ELSE InsertSorted(SortDocs(SubSeq(s, 1, Len(s) - 1), sortBy, order),
                      s[Len(s)], sortBy, order)

\* find(query).sort({ [sortBy]: order }).skip(skip).limit(limit).toArray()
Find(s, search, sortBy, order, skip, limit) ==
    LET sorted == SortDocs(Filter(s, search), sortBy, order)
        last == IF skip + limit < Len(sorted) THEN skip + limit ELSE Len(sorted)
    IN SubSeq(sorted, skip + 1, last)

\* countDocuments(query)
CountDocuments(s, search) == Len(Filter(s, search))

\* Math.floor in place of Math.ceil
FloorDiv(a, b) == a \div b

\* Math.ceil(a / b) for a >= 0, b >= 1
CeilDiv(a, b) == (a + b - 1) \div b

-----------------------------------------------------------------------------
(* Users, the remote source, request bodies *)

Alice == [id |-> 1, name |-> <<"A", "l">>, username |-> <<"a", "l">>,
          email |-> <<"a", "@", "x">>]

\* another user who claims id 1
Alba == [id |-> 1, name |-> <<"A", "b">>, username |-> <<"a", "b">>,
         email |-> <<"b", "@", "x">>]

Bob == [id |-> 2, name |-> <<"B", "o">>, username |-> <<"b", "o">>,
        email |-> <<"o", "@", "x">>]

\* https://jsonplaceholder.typicode.com/users
RemoteUsers ==
    << [id |-> 1, name |-> <<"L", "o">>, username |-> <<"l", "o">>,
        email |-> <<"l", "@", "x">>],
       [id |-> 2, name |-> <<"O", "l">>, username |-> <<"o", "l">>,
        email |-> <<"o", "@", "x">>] >>

\* https://jsonplaceholder.typicode.com/posts?userId=
RemotePosts(userId) ==
    IF userId = 1
    THEN << [userId |-> 1, id |-> 1, title |-> <<"b">>],
            [userId |-> 1, id |-> 2, title |-> <<"a">>] >>
    ELSE << [userId |-> userId, id |-> 3, title |-> <<"a", "b">>] >>

\* https://jsonplaceholder.typicode.com/comments?postId=
RemoteComments(postId) == IF postId = 1 THEN <<[postId |-> 1, id |-> 1]>> ELSE <<>>

\* post.comments = ...
WithComments(post) ==
    [userId |-> post.userId, id |-> post.id, title |-> post.title,
     comments |-> RemoteComments(post.id)]

RECURSIVE InsertPost(_, _)
InsertPost(s, p) ==
    IF s = <<>> THEN <<p>>
    ELSE IF StrLess(p.title, s[1].title) THEN <<p>> \o s
    ELSE <<s[1]>> \o InsertPost(Tail(s), p)

RECURSIVE SortPosts(_)
\* posts.sort((a, b) => a.title.localeCompare(b.title)), titles in lower case
SortPosts(s) ==
    IF s = <<>> THEN <<>>
    ELSE InsertPost(SortPosts(SubSeq(s, 1, Len(s) - 1)), s[Len(s)])

\* user.posts = posts, each post with its comments, sorted by title
WithPosts(user) ==
    LET posts == RemotePosts(user.id)
    IN [id |-> user.id, name |-> user.name, username |-> user.username,
        email |-> user.email,
        posts |-> SortPosts([i \in 1..Len(posts) |-> WithComments(posts[i])])]

\* The body texts a PUT may carry, by what JSON.parse makes of them: text that
\* is not JSON, the JSON null, an object without a numeric id, a user.
PutBodies ==
    { [text |-> "malformed"], [text |-> "null"], [text |-> "noid"] }
    \cup { [text |-> "user", user |-> u] : u \in {Alice, Alba} }

\* JSON.parse(body): throws on text that is not JSON
JsonParse(body) ==
    IF body.text = "malformed" THEN [throws |-> TRUE]
    ELSE [throws |-> FALSE,
          falsy |-> body.text = "null",
          idIsNumber |-> body.text = "user",
          value |-> IF body.text = "user" THEN body.user ELSE Null]

-----------------------------------------------------------------------------
(* Requests and routing *)

LOAD == <<"/", "l", "o", "a", "d">>

USERS_SLASH == USERS \o <<"/">>

Param(n, v) == [name |-> n, value |-> v]

\* the query strings of the collection reads the connections send
ListQueries ==
    { <<>>,
      <<Param("search", <<"O">>), Param("order", <<"d", "e", "s", "c">>),
        Param("limit", <<"2">>), Param("page", <<"2">>)>>,
      <<Param("page", <<"0">>)>>,
      <<Param("limit", <<"5", "x">>)>>,
      <<Param("sortBy", <<"x">>)>> }

NoBody == [text |-> "none"]

Request(m, p, q, b) == [method |-> m, path |-> p, query |-> q, body |-> b]

Requests ==
    { Request("GET", LOAD, <<>>, NoBody) }
    \cup { Request("DELETE", USERS_SLASH \o id, <<>>, NoBody) :
             id \in { <<"1">>, <<"x">> } }
    \cup { Request("GET", USERS_SLASH \o id, <<>>, NoBody) : id \in { <<"1">> } }
    \cup { Request("GET", USERS, q, NoBody) : q \in ListQueries }
    \cup { Request("PUT", USERS, <<>>, b) : b \in PutBodies }

\* url.split("/")[2] for a url that starts with "/users/"
RECURSIVE UpToSlash(_)
UpToSlash(s) ==
    IF s = <<>> \/ s[1] = "/" THEN <<>> ELSE <<s[1]>> \o UpToSlash(Tail(s))

Segment2(path) == UpToSlash(SubSeq(path, Len(USERS_SLASH) + 1, Len(path)))

\* /^\/users\/\d+$/.test(url)
IsUserUrl(r) ==
    /\ r.query = <<>>
    /\ StartsWith(r.path, USERS_SLASH)
    /\ Len(r.path) > Len(USERS_SLASH)
    /\ \A i \in (Len(USERS_SLASH) + 1)..Len(r.path) : IsDigit(r.path[i])

\* the branch of userRouter a request takes, the tests in the code's order
Route(r) ==
    IF r.method = "GET" /\ r.path = LOAD /\ r.query = <<>> THEN "load"
    ELSE IF r.method = "DELETE" /\ StartsWith(r.path, USERS_SLASH) THEN "delete"
    ELSE IF r.method = "GET" /\ IsUserUrl(r) THEN "user"
    ELSE IF r.method = "GET" /\ StartsWith(r.path, USERS) THEN "list"
    ELSE IF r.method = "PUT" /\ r.path = USERS /\ r.query = <<>> THEN "put"
    ELSE "none"

-----------------------------------------------------------------------------
(* State *)

Connections == {"c1", "c2"}

NoResp == [status |-> 0]

Json(status, body) == [status |-> status, body |-> body]

Error(status, message) == Json(status, [error |-> message])

EmptyCache == [k \in {} |-> Null]

HalfTTL == CACHE_TTL \div 2

\* the collection when the process starts
InitialStores == { <<>>, <<Alice, Bob>> }

Init ==
    /\ store \in InitialStores
    /\ cache = EmptyCache
    /\ now = 0
    /\ pc = [c \in Connections |-> "idle"]
    /\ req = [c \in Connections |-> Null]
    /\ loc = [c \in Connections |-> Null]
    /\ resp = [c \in Connections |-> NoResp]
    /\ ops = [c \in Connections |-> <<>>]
    /\ pre = Null
    /\ issued = 0
    /\ gone = {}
    /\ fresh = EmptyCache
    /\ lastPut = EmptyCache
    /\ ret = [call |-> "none"]
    /\ kreq = Null

-----------------------------------------------------------------------------
(* Steps common to the handlers *)

Aux == <<lastPut, ret, kreq>>

\* a request arrives on an idle connection
Receive(c, r) ==
    /\ pc[c] = "idle"
    /\ issued < MaxRequests
    /\ issued' = issued + 1
    /\ req' = [req EXCEPT ![c] = r]
    /\ pre' = [store |-> store, cache |-> cache]
    /\ UNCHANGED <<now, Aux>>

\* a response that is written and never ended: the client is left waiting
AnswerLost(c, r) ==
    /\ resp' = [resp EXCEPT ![c] = r]
    /\ pc' = [pc EXCEPT ![c] = "hung"]

\* res.writeHead(...); res.end(...): the handler is done
Answer(c, r) ==
    /\ resp' = [resp EXCEPT ![c] = r]
    /\ pc' = [pc EXCEPT ![c] = "answered"]

\* the client has read the response; the connection can take its next request
Close(c) ==
    /\ pc[c] = "answered"
    /\ pc' = [pc EXCEPT ![c] = "idle"]
    /\ req' = [req EXCEPT ![c] = Null]
    /\ loc' = [loc EXCEPT ![c] = Null]
    /\ resp' = [resp EXCEPT ![c] = NoResp]
    /\ ops' = [ops EXCEPT ![c] = <<>>]
    /\ pre' = Null
    /\ UNCHANGED <<store, cache, now, issued, gone, fresh, Aux>>

\* the handler goes on to its next await
Goto(c, label) ==
    /\ pc' = [pc EXCEPT ![c] = label]
    /\ UNCHANGED resp

\* a step of a handler already running
Continue(c) == UNCHANGED <<req, pre, issued, now, Aux>>

Did(c, op) == ops' = [ops EXCEPT ![c] = Append(@, op)]

Drop(f, k) == [x \in DOMAIN f \ {k} |-> f[x]]

\* the cached payload sent as it is, cached: false with it
SpreadOnly(cachedData) == cachedData

\* { ...cachedData, cached: true }
Spread(cachedData) == [cachedData EXCEPT !.cached = TRUE]

-----------------------------------------------------------------------------
(* GET /load *)

StartLoad(c) ==
    \E r \in Requests, ok \in BOOLEAN :
        /\ Route(r) = "load"
        /\ Receive(c, r)
        /\ ops' = [ops EXCEPT ![c] = <<>>]
        /\ IF ok
           THEN /\ loc' = [loc EXCEPT ![c] = [users |-> RemoteUsers, i |-> 1]]
                /\ pc' = [pc EXCEPT ![c] =
                            IF RemoteUsers = <<>> THEN "load_done" ELSE "load_insert"]
                /\ resp' = [resp EXCEPT ![c] = NoResp]
           ELSE /\ loc' = [loc EXCEPT ![c] = Null]
                /\ Answer(c, Error(500, "Failed to load data"))
        /\ UNCHANGED <<store, cache, gone, fresh>>

\* one turn of the loop: the user's posts and comments are fetched, the posts
\* sorted, the user inserted; any of the fetches or the insert may throw
LoadInsert(c) ==
    /\ pc[c] = "load_insert"
    /\ Continue(c)
    /\ \E ok \in BOOLEAN :
        LET user == WithPosts(loc[c].users[loc[c].i])
        IN IF ok
           THEN /\ store' = InsertOne(store, user)
                /\ Did(c, [op |-> "insertOne", id |-> user.id])
                /\ loc' = [loc EXCEPT ![c].i = @ + 1]
                /\ Goto(c, IF loc[c].i = Len(loc[c].users)
                           THEN "load_done" ELSE "load_insert")
                /\ gone' = gone \ {user.id}
                /\ UNCHANGED <<cache, fresh>>
           ELSE /\ Answer(c, Error(500, "Failed to load data"))
                /\ UNCHANGED <<store, cache, loc, ops, gone, fresh>>

LoadDone(c) ==
    /\ pc[c] = "load_done"
    /\ Continue(c)
    /\ cache' = InvalidateCacheByPrefix(cache, USERS)
    /\ Did(c, [op |-> "invalidateCacheByPrefix", prefix |-> USERS])
    /\ Answer(c, [status |-> 200])
    /\ fresh' = EmptyCache
    /\ UNCHANGED <<store, loc, gone>>

-----------------------------------------------------------------------------
(* DELETE /users/:userId *)

StartDelete(c) ==
    \E r \in Requests :
        LET userId == ParseInt(Segment2(r.path))
        IN /\ Route(r) = "delete"
           /\ Receive(c, r)
           /\ ops' = [ops EXCEPT ![c] = <<>>]
           /\ IF userId.nan
              THEN /\ Answer(c, Error(400, "Invalid userId"))
                   /\ loc' = [loc EXCEPT ![c] = Null]
              ELSE /\ pc' = [pc EXCEPT ![c] = "del_db"]
                   /\ resp' = [resp EXCEPT ![c] = NoResp]
                   /\ loc' = [loc EXCEPT ![c] = [userId |-> userId.val]]
           /\ UNCHANGED <<store, cache, gone, fresh>>

\* deleteOne runs in the store; a deletedCount of 0 is answered at once
DeleteDeleteOne(c) ==
    /\ pc[c] = "del_db"
    /\ Continue(c)
    /\ \E ok \in BOOLEAN :
        IF ~ok
        THEN /\ Answer(c, Error(500, "Failed to delete user"))
             /\ UNCHANGED <<store, ops>>
        ELSE /\ store' = DeleteOne(store, loc[c].userId)
             /\ Did(c, [op |-> "deleteOne", id |-> loc[c].userId])
             /\ IF DeletedCount(store, loc[c].userId) = 0
                THEN Answer(c, Error(404, "User not found"))
                ELSE Goto(c, "del_done")
    /\ UNCHANGED <<cache, loc, gone, fresh>>

\* the end of DELETE /users/:userId without the invalidation
DeleteDoneKeepsCache(c) ==
    /\ pc[c] = "del_done"
    /\ Continue(c)
    /\ Answer(c, Json(200, [message |-> "User deleted successfully"]))
    /\ gone' = gone \cup {loc[c].userId}
    /\ fresh' = EmptyCache
    /\ UNCHANGED <<store, cache, ops, loc>>

DeleteDone(c) ==
    /\ pc[c] = "del_done"
    /\ Continue(c)
    /\ cache' = InvalidateCacheByPrefix(cache, USERS)
    /\ Did(c, [op |-> "invalidateCacheByPrefix", prefix |-> USERS])
    /\ Answer(c, Json(200, [message |-> "User deleted successfully"]))
    /\ gone' = gone \cup {loc[c].userId}
    /\ fresh' = EmptyCache
    /\ UNCHANGED <<store, loc>>

-----------------------------------------------------------------------------
(* GET /users/:userId *)

\* what the answer to a read of userId means for the record of the last PUT
FreshAfterRead(userId, r) ==
    IF userId \notin DOMAIN fresh THEN fresh
    ELSE IF fresh[userId].phase = "put"
    THEN IF r.status = 200
         THEN [fresh EXCEPT ![userId] =
                 [phase |-> "read", user |-> r.body.user, at |-> now]]
         ELSE Drop(fresh, userId)
    ELSE IF now - fresh[userId].at > CACHE_TTL THEN Drop(fresh, userId)
    ELSE fresh

\* GET /users/:userId with a sliding expiry: a hit writes the entry back with
\* the time of the hit
StartGetUserRefresh(c) ==
    \E r \in Requests :
        LET userId == ParseInt(Segment2(r.path)).val
            cacheKey == UserCacheKey(userId)
            cachedData == GetCache(cache, cacheKey, now)
        IN /\ Route(r) = "user"
           /\ Receive(c, r)
           /\ ops' = [ops EXCEPT ![c] = <<[op |-> "getCache", key |-> cacheKey]>>]
           /\ IF cachedData # Null
              THEN /\ Answer(c, Json(200, Spread(cachedData)))
                   /\ loc' = [loc EXCEPT ![c] = Null]
                   /\ fresh' = FreshAfterRead(userId, Json(200, Spread(cachedData)))
                   /\ cache' = SetCache(cache, cacheKey, cachedData, now)
              ELSE /\ pc' = [pc EXCEPT ![c] = "user_db"]
                   /\ resp' = [resp EXCEPT ![c] = NoResp]
                   /\ loc' = [loc EXCEPT ![c] =
                                [userId |-> userId, cacheKey |-> cacheKey]]
                   /\ UNCHANGED <<fresh, cache>>
           /\ UNCHANGED <<store, gone>>

StartGetUser(c) ==
    \E r \in Requests :
        LET userId == ParseInt(Segment2(r.path)).val
            cacheKey == UserCacheKey(userId)
            cachedData == GetCache(cache, cacheKey, now)
        IN /\ Route(r) = "user"
           /\ Receive(c, r)
           /\ ops' = [ops EXCEPT ![c] = <<[op |-> "getCache", key |-> cacheKey]>>]
           /\ IF cachedData # Null
              THEN /\ Answer(c, Json(200, Spread(cachedData)))
                   /\ loc' = [loc EXCEPT ![c] = Null]
                   /\ fresh' = FreshAfterRead(userId, Json(200, Spread(cachedData)))
              ELSE /\ pc' = [pc EXCEPT ![c] = "user_db"]
                   /\ resp' = [resp EXCEPT ![c] = NoResp]
                   /\ loc' = [loc EXCEPT ![c] =
                                [userId |-> userId, cacheKey |-> cacheKey]]
                   /\ UNCHANGED fresh
           /\ UNCHANGED <<store, cache, gone>>

\* the findOne of GET /users/:userId with negative caching: "no such user" is
\* put in the cache before the 404
GetUserFindOneCachesMiss(c) ==
    /\ pc[c] = "user_db"
    /\ Continue(c)
    /\ \E ok \in BOOLEAN :
        LET user == FindOne(store, loc[c].userId)
        IN IF ~ok
           THEN /\ Answer(c, Error(500, "Failed to fetch user"))
                /\ fresh' = FreshAfterRead(loc[c].userId, Error(500, ""))
                /\ UNCHANGED <<loc, ops, cache>>
           ELSE /\ Did(c, [op |-> "findOne", id |-> loc[c].userId])
                /\ IF user = Null
                   THEN /\ Answer(c, Error(404, "User not found"))
                        /\ fresh' = FreshAfterRead(loc[c].userId, Error(404, ""))
                        /\ cache' = SetCache(cache, loc[c].cacheKey,
                                             [user |-> Null, cached |-> FALSE], now)
                        /\ UNCHANGED loc
                   ELSE /\ Goto(c, "user_done")
                        /\ loc' = [loc EXCEPT ![c] =
                                     [userId |-> loc[c].userId,
                                      cacheKey |-> loc[c].cacheKey, user |-> user]]
                        /\ UNCHANGED <<fresh, cache>>
    /\ UNCHANGED <<store, gone>>

\* findOne runs in the store; no user is answered at once
GetUserFindOne(c) ==
    /\ pc[c] = "user_db"
    /\ Continue(c)
    /\ \E ok \in BOOLEAN :
        LET user == FindOne(store, loc[c].userId)
        IN IF ~ok
           THEN /\ Answer(c, Error(500, "Failed to fetch user"))
                /\ fresh' = FreshAfterRead(loc[c].userId, Error(500, ""))
                /\ UNCHANGED <<loc, ops>>
           ELSE /\ Did(c, [op |-> "findOne", id |-> loc[c].userId])
                /\ IF user = Null
                   THEN /\ Answer(c, Error(404, "User not found"))
                        /\ fresh' = FreshAfterRead(loc[c].userId, Error(404, ""))
                        /\ UNCHANGED loc
                   ELSE /\ Goto(c, "user_done")
                        /\ loc' = [loc EXCEPT ![c] =
                                     [userId |-> loc[c].userId,
                                      cacheKey |-> loc[c].cacheKey, user |-> user]]
                        /\ UNCHANGED fresh
    /\ UNCHANGED <<store, cache, gone>>

GetUserDone(c) ==
    /\ pc[c] = "user_done"
    /\ Continue(c)
    /\ LET responseData == [user |-> loc[c].user, cached |-> FALSE]
       IN /\ cache' = SetCache(cache, loc[c].cacheKey, responseData, now)
          /\ Did(c, [op |-> "setCache", key |-> loc[c].cacheKey])
          /\ Answer(c, Json(200, responseData))
          /\ fresh' = FreshAfterRead(loc[c].userId, Json(200, responseData))
    /\ UNCHANGED <<store, loc, gone>>

-----------------------------------------------------------------------------
(* GET /users?page&limit&search&sortBy&order *)

SortByMessage == "Invalid sortBy field. Must be one of: id, name, username, email"

StartGetUsers(c) ==
    \E r \in Requests :
        LET page == ParsePage(r.query).val
            limit == ParseLimit(r.query).val
            search == ParseSearch(r.query)
            sortBy == ParseSortBy(r.query)
            order == ParseOrder(r.query)
            cacheKey == ListCacheKey(page, limit, search, sortBy, order)
            cachedData == GetCache(cache, cacheKey, now)
        IN /\ Route(r) = "list"
           /\ Receive(c, r)
           /\ IF BadPageOrLimit(r.query)
              THEN /\ Answer(c, Error(400, "Invalid page or limit value"))
                   /\ ops' = [ops EXCEPT ![c] = <<>>]
                   /\ loc' = [loc EXCEPT ![c] = Null]
              ELSE IF BadSortBy(r.query)
              THEN /\ Answer(c, Error(400, SortByMessage))
                   /\ ops' = [ops EXCEPT ![c] = <<>>]
                   /\ loc' = [loc EXCEPT ![c] = Null]
              ELSE /\ ops' = [ops EXCEPT ![c] =
                                <<[op |-> "getCache", key |-> cacheKey]>>]
                   /\ IF cachedData # Null
                      THEN /\ Answer(c, Json(200, Spread(cachedData)))
                           /\ loc' = [loc EXCEPT ![c] = Null]
                      ELSE /\ pc' = [pc EXCEPT ![c] = "list_find"]
                           /\ resp' = [resp EXCEPT ![c] = NoResp]
                           /\ loc' = [loc EXCEPT ![c] =
                                        [page |-> page, limit |-> limit,
                                         search |-> search, sortBy |-> sortBy,
                                         order |-> order,
                                         skip |-> (page - 1) * limit,
                                         cacheKey |-> cacheKey,
                                         users |-> <<>>, totalUsers |-> 0]]
           /\ UNCHANGED <<store, cache, gone, fresh>>

\* find(...).toArray() runs in the store
GetUsersFind(c) ==
    /\ pc[c] = "list_find"
    /\ Continue(c)
    /\ \E ok \in BOOLEAN :
        LET l == loc[c]
        IN IF ~ok
           THEN /\ Answer(c, Error(500, "Failed to fetch users"))
                /\ UNCHANGED <<loc, ops>>
           ELSE /\ loc' = [loc EXCEPT ![c].users =
                             Find(store, l.search, l.sortBy, l.order, l.skip, l.limit)]
                /\ Did(c, [op |-> "find", search |-> l.search, sortBy |-> l.sortBy,
                           order |-> l.order, skip |-> l.skip, limit |-> l.limit])
                /\ Goto(c, "list_count")
    /\ UNCHANGED <<store, cache, gone, fresh>>

\* countDocuments(query) runs in the store
GetUsersCount(c) ==
    /\ pc[c] = "list_count"
    /\ Continue(c)
    /\ \E ok \in BOOLEAN :
        IF ~ok
        THEN /\ Answer(c, Error(500, "Failed to fetch users"))
             /\ UNCHANGED <<loc, ops>>
        ELSE /\ loc' = [loc EXCEPT ![c].totalUsers =
                          CountDocuments(store, loc[c].search)]
             /\ Did(c, [op |-> "countDocuments", search |-> loc[c].search])
             /\ Goto(c, "list_done")
    /\ UNCHANGED <<store, cache, gone, fresh>>

GetUsersDone(c) ==
    /\ pc[c] = "list_done"
    /\ Continue(c)
    /\ LET l == loc[c]
           responseData ==
               [page |-> l.page, limit |-> l.limit, totalUsers |-> l.totalUsers,
                totalPages |-> CeilDiv(l.totalUsers, l.limit),
                users |-> l.users, cached |-> FALSE]
       IN /\ cache' = SetCache(cache, l.cacheKey, responseData, now)
          /\ Did(c, [op |-> "setCache", key |-> l.cacheKey])
          /\ Answer(c, Json(200, responseData))
    /\ UNCHANGED <<store, loc, gone, fresh>>

-----------------------------------------------------------------------------
(* PUT /users *)

\* the "end" event of the request: the body is parsed and checked
StartPut(c) ==
    \E r \in Requests :
        LET newUser == JsonParse(r.body)
        IN /\ Route(r) = "put"
           /\ Receive(c, r)
           /\ ops' = [ops EXCEPT ![c] = <<>>]
           /\ IF newUser.throws
              THEN /\ Answer(c, Error(500, "Failed to add user"))
                   /\ loc' = [loc EXCEPT ![c] = Null]
              ELSE IF newUser.falsy \/ ~newUser.idIsNumber
              THEN /\ Answer(c, Error(400, "Invalid user data"))
                   /\ loc' = [loc EXCEPT ![c] = Null]
              ELSE /\ pc' = [pc EXCEPT ![c] = "put_find"]
                   /\ resp' = [resp EXCEPT ![c] = NoResp]
                   /\ loc' = [loc EXCEPT ![c] = [newUser |-> newUser.value]]
           /\ UNCHANGED <<store, cache, gone, fresh>>

\* findOne runs in the store; an existing user is answered at once
PutFindOne(c) ==
    /\ pc[c] = "put_find"
    /\ Continue(c)
    /\ \E ok \in BOOLEAN :
        IF ~ok
        THEN /\ Answer(c, Error(500, "Failed to add user"))
             /\ UNCHANGED ops
        ELSE /\ Did(c, [op |-> "findOne", id |-> loc[c].newUser.id])
             /\ IF FindOne(store, loc[c].newUser.id) # Null
                THEN Answer(c, Error(400, "User already exists."))
                ELSE Goto(c, "put_insert")
    /\ UNCHANGED <<store, cache, loc, gone, fresh>>

\* insertOne runs in the store
PutInsertOne(c) ==
    /\ pc[c] = "put_insert"
    /\ Continue(c)
    /\ \E ok \in BOOLEAN :
        IF ~ok
        THEN /\ Answer(c, Error(500, "Failed to add user"))
             /\ UNCHANGED <<store, ops, gone>>
        ELSE /\ store' = InsertOne(store, loc[c].newUser)
             /\ Did(c, [op |-> "insertOne", id |-> loc[c].newUser.id])
             /\ gone' = gone \ {loc[c].newUser.id}
             /\ Goto(c, "put_done")
    /\ UNCHANGED <<cache, loc, fresh>>

PutDone(c) ==
    /\ pc[c] = "put_done"
    /\ Continue(c)
    /\ cache' = InvalidateCacheByPrefix(cache, USERS)
    /\ Did(c, [op |-> "invalidateCacheByPrefix", prefix |-> USERS])
    /\ Answer(c, [status |-> 201,
                  location |-> USERS_SLASH \o NumStr(loc[c].newUser.id),
                  body |-> loc[c].newUser])
    /\ fresh' = [k \in {loc[c].newUser.id} |->
                   [phase |-> "put", user |-> loc[c].newUser, at |-> 0]]
    /\ UNCHANGED <<store, loc, gone>>

-----------------------------------------------------------------------------
(* The clock and the specifications *)

\* Date.now() moves on by half the TTL, or by 1 ms more than that
Tick ==
    /\ now \div HalfTTL < MaxTicks
    /\ \E d \in {HalfTTL, HalfTTL + 1} : now' = now + d
    /\ UNCHANGED <<store, cache, pc, req, loc, resp, ops, pre, issued, gone, fresh,
                   Aux>>

Step(c) ==
    \/ StartLoad(c) \/ LoadInsert(c) \/ LoadDone(c)
    \/ StartDelete(c) \/ DeleteDeleteOne(c) \/ DeleteDone(c)
    \/ StartGetUser(c) \/ GetUserFindOne(c) \/ GetUserDone(c)
    \/ StartGetUsers(c) \/ GetUsersFind(c) \/ GetUsersCount(c) \/ GetUsersDone(c)
    \/ StartPut(c) \/ PutFindOne(c) \/ PutInsertOne(c) \/ PutDone(c)
    \/ Close(c)

\* the connections' handlers interleave at their awaits
Next == Tick \/ \E c \in Connections : Step(c)

Spec == Init /\ [][Next]_vars

\* requests executed one after another: a single connection
NextSeq == Tick \/ Step("c1")

SpecSeq == Init /\ [][NextSeq]_vars

\* the continuations of c's handler: what the event loop runs once the awaited
\* fetch or store operation has settled, be it fulfilled or rejected
Run(c) ==
    \/ LoadInsert(c) \/ LoadDone(c)
    \/ DeleteDeleteOne(c) \/ DeleteDone(c)
    \/ GetUserFindOne(c) \/ GetUserDone(c)
    \/ GetUsersFind(c) \/ GetUsersCount(c) \/ GetUsersDone(c)
    \/ PutFindOne(c) \/ PutInsertOne(c) \/ PutDone(c)

\* every awaited operation settles, and the event loop then runs the handler on
SpecSeqLive == SpecSeq /\ WF_vars(Run("c1"))

\* the two connections within one instant of the clock
NextNow == \E c \in Connections : Step(c)

SpecNow == Init /\ [][NextNow]_vars

SpecNowLive == SpecNow /\ \A c \in Connections : WF_vars(Run(c))

\* two connections that read single users, delete and put
NextRace ==
    \/ Tick
    \/ \E c \in Connections :
          \/ StartGetUser(c) \/ GetUserFindOne(c) \/ GetUserDone(c)
          \/ StartDelete(c) \/ DeleteDeleteOne(c) \/ DeleteDone(c)
          \/ StartPut(c) \/ PutFindOne(c) \/ PutInsertOne(c) \/ PutDone(c)
          \/ Close(c)

SpecRace == Init /\ [][NextRace]_vars

\* two connections that put
NextPuts ==
    \E c \in Connections :
        StartPut(c) \/ PutFindOne(c) \/ PutInsertOne(c) \/ PutDone(c) \/ Close(c)

SpecPuts == Init /\ [][NextPuts]_vars

-----------------------------------------------------------------------------
(* What the claims speak of *)

\* connection c holds the answer to a request that took this branch
AnsweredAs(c, route) == pc[c] = "answered" /\ Route(req[c]) = route

\* the id in the path of c's request
ReqUserId(c) == ParseInt(Segment2(req[c].path)).val

\* c's request was a write and was answered with its success status
WriteSucceeded(c) ==
    \/ AnsweredAs(c, "put") /\ resp[c].status = 201
    \/ AnsweredAs(c, "delete") /\ resp[c].status = 200
    \/ AnsweredAs(c, "load") /\ resp[c].status = 200

\* the request changed neither the store nor the cache
NothingChanged == store = pre.store /\ cache = pre.cache

\* whether the collection s holds a document with this id
Holds(s, id) == \E i \in 1..Len(s) : s[i].id = id

\* the operations of this kind that c's handler has made
OpsOf(c, kinds) == {i \in 1..Len(ops[c]) : ops[c][i].op \in kinds}

-----------------------------------------------------------------------------
(* C1 *)

\* C1: once a write (PUT 201, DELETE 200, /load 200) has been answered, the
\* cache holds no entry that was put there before the write, be it under a
\* single-entity key or under a collection key.
C1_NoEntrySurvivesWrite ==
    \A c \in Connections : WriteSucceeded(c) => DOMAIN cache = {}

-----------------------------------------------------------------------------
(* C4 *)

\* C4: requests one after another; once DELETE /users/{id} was answered 200,
\* every GET /users/{id} is answered 404 "User not found" until a PUT or a
\* /load inserts that id again (a store failure, answered 500, aside).
C4_DeletedUserNotFound ==
    \A c \in Connections :
        (AnsweredAs(c, "user") /\ ReqUserId(c) \in gone /\ resp[c].status # 500)
            => resp[c] = Error(404, "User not found")

-----------------------------------------------------------------------------
(* C5 *)

\* C5: requests one after another; a PUT of an id the store does not hold is
\* answered 201 with Location /users/{id}; the first GET /users/{id} after it
\* is answered 200, cached:false, with the record that was put; each further
\* GET within the TTL of that first GET, no write in between, is answered 200,
\* cached:true, with the same user (a store failure, answered 500, aside).
C5_PutThenReads ==
    [][\A c \in Connections :
          (pc'[c] = "answered" /\ pc[c] # "answered") =>
              /\ (Route(req'[c]) = "put" /\ resp'[c].status \notin {400, 500}) =>
                    /\ ~Holds(pre'.store, req'[c].body.user.id)
                    /\ resp'[c] =
                         [status |-> 201,
                          location |-> USERS \o <<"/">>
                                       \o NumStr(req'[c].body.user.id),
                          body |-> req'[c].body.user]
              /\ (Route(req'[c]) = "put" /\ resp'[c].status = 400
                  /\ req'[c].body.text = "user") =>
                    Holds(pre'.store, req'[c].body.user.id)
              /\ (Route(req'[c]) = "user"
                  /\ ParseInt(Segment2(req'[c].path)).val \in DOMAIN fresh) =>
                    LET f == fresh[ParseInt(Segment2(req'[c].path)).val]
                    IN IF f.phase = "put"
                       THEN resp'[c].status # 500 =>
                              resp'[c] = Json(200, [user |-> f.user,
                                                    cached |-> FALSE])
                       ELSE now' - f.at <= 300000 =>
                              resp'[c] = Json(200, [user |-> f.user,
                                                    cached |-> TRUE])
      ]_vars

\* a second read of a user just put has been answered from the cache
C5_Witness ==
    /\ AnsweredAs("c1", "user")
    /\ ReqUserId("c1") \in DOMAIN fresh
    /\ fresh[ReqUserId("c1")].phase = "read"
    /\ resp["c1"].status = 200
    /\ resp["c1"].body.cached

-----------------------------------------------------------------------------
(* C6 *)

\* C6: requests one after another; a PUT whose body carries an id the store
\* already holds is answered 400 "User already exists."; it inserts nothing and
\* invalidates nothing, store and cache being after it what they were before
\* (a store failure, answered 500, aside).
C6_DuplicatePutRejected ==
    \A c \in Connections :
        (/\ AnsweredAs(c, "put")
         /\ req[c].body.text = "user"
         /\ Holds(pre.store, req[c].body.user.id)
         /\ resp[c].status # 500)
            => /\ resp[c] = Error(400, "User already exists.")
               /\ NothingChanged
               /\ OpsOf(c, {"insertOne", "invalidateCacheByPrefix", "setCache"}) = {}

\* a duplicate PUT was turned down while the cache held entries
C6_Witness ==
    /\ AnsweredAs("c1", "put")
    /\ resp["c1"] = Error(400, "User already exists.")
    /\ DOMAIN cache # {}
    /\ \E k \in DOMAIN cache : StartsWith(k, USERS)

-----------------------------------------------------------------------------
(* C7 *)

\* C7: a PUT whose body is not JSON, or is JSON without a numeric id, is
\* answered 400 "Invalid user data" and leaves store and cache as they were.
C7_InvalidBodyIs400 ==
    \A c \in Connections :
        (AnsweredAs(c, "put") /\ req[c].body.text # "user")
            => /\ resp[c] = Error(400, "Invalid user data")
               /\ NothingChanged

-----------------------------------------------------------------------------
(* C8 *)

\* a decimal numeral: digits and nothing else
IsNumeral(s) == s # <<>> /\ \A i \in 1..Len(s) : IsDigit(s[i])

\* the parameter is given and is not a numeral of value 1 or more
NotAPositiveNumber(query, name) ==
    LET v == SearchParamsGet(query, name)
    IN ~v.null /\ (~IsNumeral(v.value) \/ ParseInt(v.value).val < 1)

SortFieldNames ==
    { <<"i", "d">>, <<"n", "a", "m", "e">>,
      <<"u", "s", "e", "r", "n", "a", "m", "e">>, <<"e", "m", "a", "i", "l">> }

\* C8: a GET /users whose page or limit is not a number, or is less than 1, is
\* answered 400 "Invalid page or limit value"; one whose sortBy is none of id,
\* name, username, email is answered 400 naming the four; either is turned
\* down before any store or cache operation, store and cache left as they were
\* (so that no store failure, answered 500, can come of it).
C8_InvalidParamsRejected ==
    \A c \in Connections :
        (AnsweredAs(c, "list") /\ resp[c].status # 500) =>
            LET q == req[c].query
                badNumber == NotAPositiveNumber(q, "page")
                             \/ NotAPositiveNumber(q, "limit")
                sortBy == SearchParamsGet(q, "sortBy")
                badSort == ~sortBy.null /\ sortBy.value \notin SortFieldNames
            IN /\ badNumber =>
                    /\ resp[c] = Error(400, "Invalid page or limit value")
                    /\ ops[c] = <<>>
                    /\ NothingChanged
               /\ (~badNumber /\ badSort) =>
                    /\ resp[c] = Error(400, SortByMessage)
                    /\ ops[c] = <<>>
                    /\ NothingChanged

-----------------------------------------------------------------------------
(* C9 *)

\* the number of documents of s that match the search
MatchCount(s, search) == Cardinality({i \in 1..Len(s) : Matches(s[i], search)})

\* C9: a GET /users answered from the store (200, cached:false) has page >= 1
\* and limit >= 1, has queried the store once with skip = (page - 1) * limit
\* and that limit, reports that page and limit, and reports
\* totalPages = ceil(totalUsers / limit), 0 for no users, totalUsers being the
\* count under the filter of the find.
C9_Pagination ==
    \A c \in Connections :
        (AnsweredAs(c, "list") /\ resp[c].status = 200 /\ ~resp[c].body.cached) =>
            LET page == ParseInt(GetOr(req[c].query, "page", <<"1">>)).val
                limit == ParseInt(GetOr(req[c].query, "limit", <<"5">>)).val
                b == resp[c].body
                finds == OpsOf(c, {"find"})
                counts == OpsOf(c, {"countDocuments"})
            IN /\ page >= 1 /\ limit >= 1
               /\ Cardinality(finds) = 1 /\ Cardinality(counts) = 1
               /\ \A i \in finds :
                    /\ ops[c][i].skip = (page - 1) * limit
                    /\ ops[c][i].limit = limit
                    /\ \A j \in counts : ops[c][j].search = ops[c][i].search
                    /\ b.totalUsers = MatchCount(store, ops[c][i].search)
                    /\ Len(b.users) <= limit
               /\ b.page = page /\ b.limit = limit
               /\ b.totalPages * limit >= b.totalUsers
               /\ (b.totalPages - 1) * limit < b.totalUsers \/ b.totalUsers = 0
               /\ b.totalUsers = 0 => b.totalPages = 0

\* a second page was read from the store, the last page being a partial one
C9_Witness ==
    /\ AnsweredAs("c1", "list")
    /\ resp["c1"].status = 200
    /\ ~resp["c1"].body.cached
    /\ resp["c1"].body.page = 2
    /\ resp["c1"].body.totalUsers % resp["c1"].body.limit # 0
    /\ resp["c1"].body.totalPages = 2
    /\ Len(resp["c1"].body.users) = 1

-----------------------------------------------------------------------------
(* The cache functions called directly *)

CacheKeys == { USERS, UserCacheKey(1), UserCacheKey(12), ListKeyOf(<<>>) }

CachePrefixes == { USERS, UserCacheKey(1), <<"{">>, <<>> }

CacheValues == { [user |-> u, cached |-> FALSE] : u \in {Alice, Alba} }

Handlers == <<store, pc, req, loc, resp, ops, pre, gone, fresh, kreq>>

CallSetCache ==
    /\ issued < MaxCalls
    /\ \E k \in CacheKeys, v \in CacheValues :
        /\ cache' = SetCache(cache, k, v, now)
        /\ lastPut' = [x \in DOMAIN lastPut \cup {k} |->
                         IF x = k THEN [data |-> v, timestamp |-> now]
                         ELSE lastPut[x]]
        /\ ret' = [call |-> "setCache", key |-> k]
    /\ issued' = issued + 1
    /\ UNCHANGED <<now, Handlers>>

CallGetCache ==
    /\ issued < MaxCalls
    /\ \E k \in CacheKeys :
        ret' = [call |-> "getCache", key |-> k, at |-> now,
                value |-> GetCache(cache, k, now)]
    /\ issued' = issued + 1
    /\ UNCHANGED <<cache, lastPut, now, Handlers>>

CallInvalidate ==
    /\ issued < MaxCalls
    /\ \E p \in CachePrefixes :
        /\ cache' = InvalidateCacheByPrefix(cache, p)
        /\ lastPut' = [x \in {k \in DOMAIN lastPut :
                                Len(k) < Len(p) \/ SubSeq(k, 1, Len(p)) # p} |->
                         lastPut[x]]
        /\ ret' = [call |-> "invalidateCacheByPrefix", prefix |-> p,
                   removed |-> {k \in DOMAIN lastPut : StartsWith(k, p)}]
    /\ issued' = issued + 1
    /\ UNCHANGED <<now, Handlers>>

NextCache == Tick \/ CallSetCache \/ CallGetCache \/ CallInvalidate

SpecCache == Init /\ [][NextCache]_vars

-----------------------------------------------------------------------------
(* C2 *)

\* C2: getCache(k) returns the value of the latest setCache(k, v) exactly when
\* no invalidation has removed it since and now - insertedAt <= 300000 ms,
\* insertedAt being the time of that setCache; otherwise it returns nothing.
\* (A setCache on an expired key thereby makes it live again.)
C2_GetCache ==
    ret.call = "getCache" =>
        ret.value =
            IF ret.key \in DOMAIN lastPut
               /\ ret.at - lastPut[ret.key].timestamp <= 300000
            THEN lastPut[ret.key].data
            ELSE Null

\* getCache has returned a value exactly 300000 ms after it was set
C2_Witness ==
    /\ ret.call = "getCache"
    /\ ret.value # Null
    /\ ret.at - lastPut[ret.key].timestamp = 300000

-----------------------------------------------------------------------------
(* C3 *)

\* C3: after invalidateCacheByPrefix(p), getCache(k) returns nothing for every
\* key k that starts with p, and every key that does not start with p has the
\* value and the insertion timestamp it had before the call.
C3_InvalidateScope ==
    [][(issued' # issued /\ ret'.call = "invalidateCacheByPrefix") =>
          \A k \in CacheKeys :
              IF StartsWith(k, ret'.prefix)
              THEN k \notin DOMAIN cache' /\ GetCache(cache', k, now') = Null
              ELSE /\ k \in DOMAIN cache' <=> k \in DOMAIN cache
                   /\ k \in DOMAIN cache => cache'[k] = cache[k]
      ]_vars

\* an invalidation has removed entries and has left another one in place
C3_Witness ==
    /\ ret.call = "invalidateCacheByPrefix"
    /\ ret.prefix = UserCacheKey(1)
    /\ Cardinality(ret.removed) = 2
    /\ USERS \in DOMAIN cache

-----------------------------------------------------------------------------
(* Cache keys of collection reads *)

KeyParams ==
    { Param("page", <<"1">>), Param("page", <<"2">>),
      Param("limit", <<"1">>),
      Param("search", <<"A">>), Param("search", <<"a">>),
      Param("sortBy", <<"n", "a", "m", "e">>), Param("sortBy", <<"x">>),
      Param("order", <<"d", "e", "s", "c">>), Param("order", <<"a", "s", "c">>) }

KeyQueries == UNION { [1..n -> KeyParams] : n \in 0..MaxParams }

\* a collection read arrives; its parameters are checked and its key derived
KeyRequest ==
    /\ kreq = Null
    /\ \E q \in KeyQueries :
        kreq' = [query |-> q,
                 accepted |-> ~BadPageOrLimit(q) /\ ~BadSortBy(q),
                 key |-> IF ~BadPageOrLimit(q) /\ ~BadSortBy(q)
                         THEN ListKeyOf(q) ELSE <<>>]
    /\ UNCHANGED <<store, cache, now, pc, req, loc, resp, ops, pre, issued, gone,
                   fresh, lastPut, ret>>

NextKey == KeyRequest

SpecKey == Init /\ [][NextKey]_vars

-----------------------------------------------------------------------------
(* C10 *)

\* the first non-empty value given for the parameter, or the default
Given(query, name, dflt) ==
    LET given == {i \in 1..Len(query) : query[i].name = name}
        first == CHOOSE i \in given : \A j \in given : i <= j
    IN IF given = {} \/ query[first].value = <<>> THEN dflt ELSE query[first].value

\* page (default 1), limit (default 5), search in lower case (default empty),
\* sortBy (default id), descending iff the order token is "desc"
Normalized(query) ==
    [page |-> ParseInt(Given(query, "page", <<"1">>)).val,
     limit |-> ParseInt(Given(query, "limit", <<"5">>)).val,
     search |-> ToLowerCase(Given(query, "search", <<>>)),
     sortBy |-> Given(query, "sortBy", <<"i", "d">>),
     descending |-> Given(query, "order", <<>>) = <<"d", "e", "s", "c">>]

Accepted(query) ==
    /\ ~ParseInt(Given(query, "page", <<"1">>)).nan
    /\ ~ParseInt(Given(query, "limit", <<"5">>)).nan
    /\ Normalized(query).page >= 1
    /\ Normalized(query).limit >= 1
    /\ Normalized(query).sortBy \in SortFieldNames

\* C10: two accepted GET /users requests get the same cache key if and only if
\* their normalized parameters are equal, whatever the order of the parameters
\* and whether a default is written out or left out; and no collection key
\* equals a single-entity key "/users/{id}".
C10_KeyDeterminism ==
    (kreq # Null /\ Accepted(kreq.query)) =>
        /\ kreq.accepted
        /\ \A q \in KeyQueries :
              Accepted(q) =>
                  (ListKeyOf(q) = kreq.key <=> Normalized(q) = Normalized(kreq.query))
        /\ \A id \in 0..MaxUserId : kreq.key # UserCacheKey(id)

\* a read that writes out a default, with its parameters in another order, has
\* got the key of the read that leaves the default out
C10_Witness ==
    /\ kreq # Null
    /\ kreq.accepted
    /\ kreq.query = <<Param("order", <<"d", "e", "s", "c">>), Param("page", <<"1">>)>>
    /\ kreq.key = ListKeyOf(<<Param("order", <<"d", "e", "s", "c">>)>>)
    /\ kreq.key # ListKeyOf(<<Param("order", <<"a", "s", "c">>)>>)

-----------------------------------------------------------------------------
(* C11 *)

\* C11: requests one after another; a GET /load answered 200 has an empty body,
\* has inserted every fetched user, in the order fetched and each with its
\* posts, and has invalidated the prefix "/users" after the last insert and
\* before the answer, so that no "/users..." key is left; a GET /load that is
\* not answered 200 is answered 500 "Failed to load data" and has invalidated
\* nothing.
C11_LoadOrder ==
    \A c \in Connections :
        AnsweredAs(c, "load") =>
            IF resp[c].status = 200
            THEN /\ resp[c] = [status |-> 200]
                 /\ Len(ops[c]) = Len(RemoteUsers) + 1
                 /\ \A i \in 1..Len(RemoteUsers) :
                      /\ ops[c][i] = [op |-> "insertOne", id |-> RemoteUsers[i].id]
                      /\ \E j \in 1..Len(store) : store[j] = WithPosts(RemoteUsers[i])
                 /\ ops[c][Len(ops[c])] =
                      [op |-> "invalidateCacheByPrefix", prefix |-> USERS]
                 /\ \A k \in DOMAIN cache : ~StartsWith(k, USERS)
            ELSE /\ resp[c] = Error(500, "Failed to load data")
                 /\ OpsOf(c, {"invalidateCacheByPrefix"}) = {}
                 /\ Len(ops[c]) < Len(RemoteUsers)

\* a load was answered 200 over a store that held users and a cache that held
\* a single-entity entry
C11_Witness ==
    /\ AnsweredAs("c1", "load")
    /\ resp["c1"].status = 200
    /\ pre.store # <<>>
    /\ UserCacheKey(1) \in DOMAIN pre.cache
    /\ Len(store) = Len(pre.store) + Len(RemoteUsers)

-----------------------------------------------------------------------------
(* C15 *)

\* C15: in every state reached by PUT /users, DELETE /users/{id} and GET /load
\* requests the store holds at most one record per id.
C15_OneRecordPerId ==
    \A i, j \in 1..Len(store) : store[i].id = store[j].id => i = j

-----------------------------------------------------------------------------
(* C20 *)

\* C20: a GET /load answered 500 leaves the store as it was when the request
\* arrived.
C20_FailedLoadKeepsStore ==
    \A c \in Connections :
        (AnsweredAs(c, "load") /\ resp[c].status = 500) => store = pre.store

-----------------------------------------------------------------------------
(* C16 *)

ReadRoutes == {"user", "list"}

\* the labels of a read that missed the cache and has not populated it yet
MissLabels == {"user_db", "user_done", "list_find", "list_count", "list_done"}

\* C16: requests one after another; a GET /users/{id} or GET /users answered
\* from the cache (200, cached:true) is answered by its lookup, which is one
\* getCache and no store operation, sends the entry's value, and leaves store
\* and cache, the entry's value and insertion timestamp included, as they
\* were, the entry being at most 300000 ms old however many hits it served;
\* and a lookup that finds nothing, or an expired entry, removes nothing, the
\* entry staying in the cache until a populate or an invalidation.
C16_HitChangesNothing ==
    [][\A c \in Connections :
          /\ (pc[c] # "answered" /\ pc'[c] = "answered"
              /\ Route(req'[c]) \in ReadRoutes
              /\ resp'[c].status = 200 /\ resp'[c].body.cached) =>
                /\ pc[c] = "idle"
                /\ Len(ops'[c]) = 1
                /\ ops'[c][1].op = "getCache"
                /\ store' = store
                /\ cache' = cache
                /\ ops'[c][1].key \in DOMAIN cache
                /\ resp'[c].body =
                     [cache[ops'[c][1].key].data EXCEPT !.cached = TRUE]
                /\ now - cache[ops'[c][1].key].timestamp <= 300000
          /\ (pc[c] = "idle" /\ pc'[c] \in MissLabels) =>
                /\ store' = store
                /\ cache' = cache
      ]_vars

\* a read was answered from an entry exactly 300000 ms old
C16_Witness ==
    /\ AnsweredAs("c1", "user")
    /\ resp["c1"].status = 200
    /\ resp["c1"].body.cached
    /\ now - cache[UserCacheKey(ReqUserId("c1"))].timestamp = 300000

\* the lookup of a read found an expired entry, which is still in the cache
C16_ExpiredKept ==
    /\ pc["c1"] = "user_db"
    /\ loc["c1"].cacheKey \in DOMAIN cache
    /\ now - cache[loc["c1"].cacheKey].timestamp > 300000

-----------------------------------------------------------------------------
(* C17 *)

\* no handler is between its first and its last step
Quiescent == \A c \in Connections : pc[c] \in {"idle", "answered"}

\* C17: requests one after another; between requests every entry under a key
\* "/users/{id}" that has not expired holds a record the store holds under
\* that id; so there is none for an id the store does not hold.
C17_UserEntriesMatchStore ==
    Quiescent =>
        \A k \in DOMAIN cache :
            (StartsWith(k, USERS_SLASH) /\ now - cache[k].timestamp <= 300000) =>
                \E i \in 1..Len(store) :
                    /\ cache[k].data.user = store[i]
                    /\ k = USERS_SLASH \o NumStr(store[i].id)

\* a user that was put, after a delete of that id, is read and held in the cache
C17_Witness ==
    /\ AnsweredAs("c1", "user")
    /\ resp["c1"].status = 200
    /\ UserCacheKey(1) \in DOMAIN cache
    /\ cache[UserCacheKey(1)].data.user = Alba
    /\ pre.store = <<Bob, Alba>>

-----------------------------------------------------------------------------
(* C19 *)

\* C19: requests one after another; a GET /users/{id} answered 404 has made no
\* setCache, a DELETE /users/{id} answered 404 or 400 has made no invalidation,
\* and after either the store and the cache are what they were when the
\* request arrived.
C19_NotFoundChangesNothing ==
    \A c \in Connections :
        /\ (AnsweredAs(c, "user") /\ resp[c].status = 404) =>
              /\ resp[c] = Error(404, "User not found")
              /\ OpsOf(c, {"setCache", "invalidateCacheByPrefix"}) = {}
              /\ NothingChanged
        /\ (AnsweredAs(c, "delete") /\ resp[c].status \in {400, 404}) =>
              /\ OpsOf(c, {"setCache", "invalidateCacheByPrefix"}) = {}
              /\ NothingChanged

\* a read of a user the store does not hold was answered 404 while the cache
\* held entries
C19_Witness ==
    /\ AnsweredAs("c1", "user")
    /\ resp["c1"].status = 404
    /\ DOMAIN cache # {}

-----------------------------------------------------------------------------
(* C12 *)

-----------------------------------------------------------------------------
(* C13 *)

\* the ids of the users of the model
UserIds == {Alice.id, Bob.id}

\* the cache holds an unexpired entry for /users/{id}, the store no such user
StaleUser(id) ==
    /\ USERS_SLASH \o NumStr(id) \in DOMAIN cache
    /\ now - cache[USERS_SLASH \o NumStr(id)].timestamp <= 300000
    /\ ~Holds(store, id)

\* C13: two connections; an unexpired entry for /users/{id} without a record
\* of that id in the store comes about in two ways only: by the commit of a
\* DELETE /users/{id}, whose invalidation then removes the entry, or by the
\* setCache of a GET /users/{id} whose findOne returned a record that has been
\* deleted since (the findOne ran before the delete committed, the setCache
\* after it). A read whose findOne runs after the delete committed leaves no
\* such entry.
C13_StaleOnlyByRace ==
    [][\A id \in UserIds :
          /\ (~StaleUser(id) /\ StaleUser(id)') =>
                \/ \E d \in Connections :
                      /\ pc[d] = "del_db" /\ pc'[d] = "del_done"
                      /\ loc[d].userId = id
                \/ \E c \in Connections :
                      /\ pc[c] = "user_done" /\ pc'[c] = "answered"
                      /\ loc[c].userId = id
                      /\ loc[c].user.id = id
                      /\ \A i \in 1..Len(store) : store[i] # loc[c].user
                      /\ OpsOf(c, {"findOne"}) # {}
          /\ \A d \in Connections :
                (pc[d] = "del_done" /\ pc'[d] = "answered" /\ loc[d].userId = id)
                    => ~StaleUser(id)'
      ]_vars

\* the DELETE was answered 200 and has invalidated, no handler is running, the
\* store holds no such user, and a later GET /users/{id} has been answered
\* 200 cached:true from the entry a racing read put back
C13_Witness ==
    \E c \in Connections :
        /\ Quiescent
        /\ AnsweredAs(c, "user")
        /\ resp[c].status = 200
        /\ resp[c].body.cached
        /\ ReqUserId(c) \in gone
        /\ StaleUser(ReqUserId(c))

-----------------------------------------------------------------------------
(* C14 *)

\* the connections that hold a 201 for a PUT of this id
Created(id) ==
    {c \in Connections :
        AnsweredAs(c, "put") /\ resp[c].status = 201 /\ resp[c].body.id = id}

\* C14: two connections that put; of the PUT /users requests that carry one id
\* at most one is answered 201, and the store holds one record of that id.
C14_OnePutWins ==
    \A id \in UserIds :
        /\ Cardinality(Created(id)) <= 1
        /\ Cardinality({i \in 1..Len(store) : store[i].id = id}) <= 1

-----------------------------------------------------------------------------
(* C18 *)

\* the number of users that totalUsers, skip and limit leave for the page
PageLength(totalUsers, skip, limit) ==
    IF totalUsers <= skip THEN 0
    ELSE IF totalUsers - skip < limit THEN totalUsers - skip
    ELSE limit

\* C18: two connections; in a GET /users answered from the store (200,
\* cached:false) totalUsers is the number of matching records of the store
\* state the page was read from, so that the page holds as many users as
\* totalUsers, skip and limit leave for it.
C18_FindAndCountAgree ==
    \A c \in Connections :
        (AnsweredAs(c, "list") /\ resp[c].status = 200 /\ ~resp[c].body.cached) =>
            Len(resp[c].body.users) =
                PageLength(resp[c].body.totalUsers,
                           (resp[c].body.page - 1) * resp[c].body.limit,
                           resp[c].body.limit)

=============================================================================
